---------------------------- MODULE Spec2Model ----------------------------
(***************************************************************************)
(* cidr2ip: expansion of CIDR blocks into address lists (src/cidr2ip.go).  *)
(*                                                                         *)
(* Text is modelled as a sequence of one-character strings, an address as  *)
(* a sequence of four bytes (0..255), a mask likewise.  The alphabet of    *)
(* the inputs is the digits, "." , "/" and the line feed, so every input   *)
(* is IPv4 text; IPv6 text is outside the model.                           *)
(***************************************************************************)
EXTENDS Integers, Sequences, FiniteSets, TLC

(***************************************************************************)
(* Bounds of the model.                                                    *)
(***************************************************************************)
\* longest list of CIDR expressions given on the command line
MaxCidrs == 2
\* most entries of one worker's list that the model holds
MaxIPs == 5

(***************************************************************************)
(* Text helpers.                                                           *)
(***************************************************************************)
Digits == <<"0", "1", "2", "3", "4", "5", "6", "7", "8", "9">>

IsDigit(c) == \E d \in 1..10 : Digits[d] = c

DigitVal(c) == (CHOOSE d \in 1..10 : Digits[d] = c) - 1

\* index of the first occurrence of c in s at or after i, 0 when there is none
RECURSIVE IndexFrom(_, _, _)
IndexFrom(s, c, i) ==
    IF i > Len(s) THEN 0
    ELSE IF s[i] = c THEN i
    ELSE IndexFrom(s, c, i + 1)

\* strconv-style decimal text of a byte, as netip's appendDecimal writes it
RECURSIVE Itoa(_)
Itoa(n) == IF n < 10 THEN <<Digits[n + 1]>>
           ELSE Itoa(n \div 10) \o <<Digits[(n % 10) + 1]>>

(***************************************************************************)
(* net.ParseCIDR and the address arithmetic of package net, as the calls   *)
(* at src/cidr2ip.go:143 and :148 use them.                                *)
(***************************************************************************)
\* netip.parseIPv4Fields: octets without leading zero, each <= 255, exactly
\* four fields separated by single dots.  Scans s from position i.
RECURSIVE parseIPv4Fields(_, _, _, _, _)
parseIPv4Fields(s, i, val, digLen, fields) ==
    IF i > Len(s)
    THEN IF Len(fields) < 3
         THEN [ok |-> FALSE, ip |-> <<>>]           \* address too short
         ELSE [ok |-> TRUE, ip |-> Append(fields, val)]
    ELSE IF IsDigit(s[i])
    THEN IF digLen = 1 /\ val = 0
         THEN [ok |-> FALSE, ip |-> <<>>]           \* leading zero
         ELSE IF val * 10 + DigitVal(s[i]) > 255
         THEN [ok |-> FALSE, ip |-> <<>>]           \* value > 255
         ELSE parseIPv4Fields(s, i + 1, val * 10 + DigitVal(s[i]),
                              digLen + 1, fields)
    ELSE IF s[i] = "."
    THEN IF i = 1 \/ i = Len(s) \/ s[i - 1] = "."
         THEN [ok |-> FALSE, ip |-> <<>>]           \* empty field
         ELSE IF Len(fields) = 3
         THEN [ok |-> FALSE, ip |-> <<>>]           \* address too long
         ELSE parseIPv4Fields(s, i + 1, 0, 0, Append(fields, val))
    ELSE [ok |-> FALSE, ip |-> <<>>]                \* unexpected character

\* netip.ParseAddr on IPv4 text: text without a dot is no address.
ParseAddr(s) ==
    IF IndexFrom(s, ".", 1) = 0
    THEN [ok |-> FALSE, ip |-> <<>>]
    ELSE parseIPv4Fields(s, 1, 0, 0, <<>>)

\* net.dtoi: the decimal number the text starts with, the number of
\* characters read, and whether a number was read (below 0xFFFFFF).
RECURSIVE dtoiFrom(_, _, _)
dtoiFrom(s, i, n) ==
    IF i > Len(s) \/ ~IsDigit(s[i])
    THEN [n |-> n, i |-> i - 1, ok |-> i > 1]
    ELSE IF n * 10 + DigitVal(s[i]) >= 16777215
    THEN [n |-> 16777215, i |-> i - 1, ok |-> FALSE]
    ELSE dtoiFrom(s, i + 1, n * 10 + DigitVal(s[i]))

dtoi(s) == dtoiFrom(s, 1, 0)

\* bitwise AND of two bytes
RECURSIVE ByteAnd(_, _)
ByteAnd(a, b) ==
    IF a = 0 \/ b = 0 THEN 0
    ELSE (a % 2) * (b % 2) + 2 * ByteAnd(a \div 2, b \div 2)

\* 0xff >> n for n in 0..8
RECURSIVE ShiftRight(_, _)
ShiftRight(v, n) == IF n = 0 THEN v ELSE ShiftRight(v \div 2, n - 1)

\* net.CIDRMask(ones, 32): byte i is 0xff while eight or more ones are left,
\* then ^(0xff >> n), then 0.
CIDRMask(ones) ==
    [i \in 1..4 |->
        IF ones >= 8 * i THEN 255
        ELSE IF ones <= 8 * (i - 1) THEN 0
        ELSE 255 - ShiftRight(255, ones - 8 * (i - 1))]

\* IP.Mask: the address ANDed with the mask, byte by byte
Mask(ip, mask) == [i \in 1..4 |-> ByteAnd(ip[i], mask[i])]

\* IPNet.Contains
Contains(ipnet, ip) ==
    \A i \in 1..4 : ByteAnd(ipnet.IP[i], ipnet.Mask[i]) = ByteAnd(ip[i], ipnet.Mask[i])

\* IP.String of a four-byte address: dotted decimal
IPString(ip) ==
    Itoa(ip[1]) \o <<".">> \o Itoa(ip[2]) \o <<".">> \o Itoa(ip[3]) \o <<".">> \o Itoa(ip[4])

NoNet == [IP |-> <<0, 0, 0, 0>>, Mask |-> <<0, 0, 0, 0>>]

\* net.ParseCIDR: address "/" prefix length; the prefix length is all of the
\* text after the slash and at most 32.
ParseCIDRNoRange(s) ==
    LET slash == IndexFrom(s, "/", 1)
        addr  == SubSeq(s, 1, slash - 1)
        mask  == SubSeq(s, slash + 1, Len(s))
        a     == ParseAddr(addr)
        d     == dtoi(mask)
    IN  IF slash = 0 \/ ~a.ok \/ ~d.ok \/ d.i # Len(mask)
        THEN [err |-> TRUE, ip |-> <<0, 0, 0, 0>>, ipnet |-> NoNet]
        ELSE [err |-> FALSE, ip |-> a.ip,
              ipnet |-> [IP |-> Mask(a.ip, CIDRMask(IF d.n > 32 THEN 32 ELSE d.n)),
                         Mask |-> CIDRMask(IF d.n > 32 THEN 32 ELSE d.n)]]

ParseCIDR(s) ==
    LET slash == IndexFrom(s, "/", 1)
        addr  == SubSeq(s, 1, slash - 1)
        mask  == SubSeq(s, slash + 1, Len(s))
        a     == ParseAddr(addr)
        d     == dtoi(mask)
    IN  IF slash = 0 \/ ~a.ok \/ ~d.ok \/ d.i # Len(mask) \/ d.n < 0 \/ d.n > 32
        THEN [err |-> TRUE, ip |-> <<0, 0, 0, 0>>, ipnet |-> NoNet]
        ELSE [err |-> FALSE, ip |-> a.ip,
              ipnet |-> [IP |-> Mask(a.ip, CIDRMask(d.n)), Mask |-> CIDRMask(d.n)]]

(***************************************************************************)
(* nextIP (src/cidr2ip.go:155-162): from the last byte to the first, add   *)
(* one to the byte (a uint8, so 255 becomes 0) and stop at the first byte  *)
(* that did not become 0.                                                  *)
(***************************************************************************)
RECURSIVE nextIPFrom(_, _)
nextIPFrom(ip, j) ==
    IF j < 1 THEN ip
    ELSE LET b == (ip[j] + 1) % 256
         IN  IF b > 0 THEN [ip EXCEPT ![j] = b]
             ELSE nextIPFrom([ip EXCEPT ![j] = b], j - 1)

\* a nextIP that forgets the carry: only the last byte is incremented
nextIPNoCarry(ip) == [ip EXCEPT ![Len(ip)] = (ip[Len(ip)] + 1) % 256]

nextIP(ip) == nextIPFrom(ip, Len(ip))


(***************************************************************************)
(* The inputs the model draws from.                                        *)
(***************************************************************************)
\* 10.0.0.255/31: host bits set; the two addresses 10.0.0.254 and 10.0.0.255
CidrA == <<"1", "0", ".", "0", ".", "0", ".", "2", "5", "5", "/", "3", "1">>

\* 255.255.255.252/30: the four highest addresses
CidrB == <<"2", "5", "5", ".", "2", "5", "5", ".", "2", "5", "5", ".", "2", "5", "2", "/", "3", "0">>

\* 192.168.1.7/32: one address
CidrC == <<"1", "9", "2", ".", "1", "6", "8", ".", "1", ".", "7", "/", "3", "2">>

\* 0.0.0.0/0: every address
CidrAll == <<"0", ".", "0", ".", "0", ".", "0", "/", "0">>

\* 10.0.0.0/33: prefix length out of range (TestInvalidCIDRs)
Bad33 == <<"1", "0", ".", "0", ".", "0", ".", "0", "/", "3", "3">>

\* 172.256.0.0/16: bad octet (TestInvalidCIDRs)
Bad256 == <<"1", "7", "2", ".", "2", "5", "6", ".", "0", ".", "0", "/", "1", "6">>

\* 192.168.1.0/16.0: bad syntax (TestInvalidCIDRs)
BadSyntax == <<"1", "9", "2", ".", "1", "6", "8", ".", "1", ".", "0", "/", "1", "6", ".", "0">>

LF == <<"\n">>

ValidPool == {CidrA, CidrB, CidrC}

MalformedPool == {Bad33, Bad256, BadSyntax}

Pool == ValidPool \cup MalformedPool

\* the positional arguments: every list over the pool up to the bound, the
\* block of all addresses alone, three valid blocks, and a malformed
\* expression between two valid ones (as in TestInvalidCIDRs)
ArgLists == UNION {[1..n -> Pool] : n \in 0..MaxCidrs}
            \cup {<<CidrAll>>, <<CidrA, CidrB, CidrC>>, <<CidrA, Bad256, CidrB>>}

\* the content of the -f file: empty, a blank line, one line without and
\* with its line feed, two lines, a malformed line
FileDatas == {<<>>, LF, CidrA, CidrC \o LF, CidrA \o LF \o CidrC \o LF, BadSyntax,
              CidrC \o LF \o LF}

VARIABLES
    args,         \* flag.Args(): the positional arguments
    fileFlag,     \* -f
    helpFlag,     \* -h
    versionFlag,  \* -v
    fsFile,       \* the file -f names: [exists, data]
    mainPc,       \* where main is: start, dispatch, drain, save, print, done
    cidrs,        \* generateIPs' argument
    di,           \* index of the next expression the dispatch loop takes
    ipsChan,      \* the lists buffered in ipsChan, oldest first
    chanCap,      \* capacity of ipsChan
    chanClosed,   \* whether ipsChan is closed
    wg,           \* counter of the sync.WaitGroup
    ips,          \* generateIPs' combined list
    wPc,          \* per worker: idle, start, loop, send, done, finished,
                  \*   and report, exit on the way through handleError
    wErr,         \* per worker: err of getIPsFromCIDR is not nil
    wIp,          \* per worker: the loop's cursor ip
    wNet,         \* per worker: ipnet
    wIps,         \* per worker: the list ips of getIPsFromCIDR
    wElided,      \* per worker: how many leading entries of its list the
                  \*   model does not hold, as <<high, low>> 16-bit halves
                  \*   (<<0, 0>> in every run from Init)
    closerPc,     \* the closing goroutine: none, wait, close, finished
    exited,       \* the process has ended
    exitCode,     \* its exit status
    stdout,       \* messages written to standard output
    stderr,       \* messages written to standard error
    csvCreated,   \* saveToCSV created the output file
    csvRows       \* its records

inputs == <<args, fileFlag, helpFlag, versionFlag, fsFile>>

chanVars == <<ipsChan, chanCap, chanClosed>>

workerVars == <<wPc, wErr, wIp, wNet, wIps, wElided>>

outVars == <<stdout, stderr, csvCreated, csvRows>>

exitVars == <<exited, exitCode>>

vars == <<inputs, mainPc, cidrs, di, chanVars, wg, ips, workerVars, closerPc,
          exitVars, outVars>>

Workers == 1..Len(cidrs)

(***************************************************************************)
(* Input plumbing.                                                         *)
(***************************************************************************)
\* bufio.ScanLines over the file: a line ends at its line feed; text after
\* the last line feed is a last line; no text is no line.
RECURSIVE ScanLines(_)
ScanLines(data) ==
    IF data = <<>> THEN <<>>
    ELSE LET nl == IndexFrom(data, "\n", 1)
         IN  IF nl = 0 THEN <<data>>
             ELSE <<SubSeq(data, 1, nl - 1)>> \o ScanLines(SubSeq(data, nl + 1, Len(data)))

\* a readFromFile that does not look at the file's size
readFromFileNoSize(file) ==
    IF ~fsFile.exists
    THEN [err |-> TRUE, cidrs |-> <<>>]
    ELSE [err |-> FALSE, cidrs |-> ScanLines(fsFile.data)]

\* readFromFile: fails when the file cannot be opened or has size 0
readFromFile(file) ==
    IF ~fsFile.exists \/ Len(fsFile.data) = 0
    THEN [err |-> TRUE, cidrs |-> <<>>]
    ELSE [err |-> FALSE, cidrs |-> ScanLines(fsFile.data)]

readCIDRs(file) ==
    IF file # "" THEN readFromFile(file) ELSE [err |-> FALSE, cidrs |-> args]

\* an unbuffered channel
ChanUnbuffered(cs) == 0

\* line 110: make(chan []string, len(cidrs))
ChanCapacity(cs) == Len(cs)

\* os.Exit(code)
Exit(code) == exited' = TRUE /\ exitCode' = code

\* handleError(err) for err # nil, called by main while no other goroutine
\* can take a step: report on standard error, exit with 1.  (The workers'
\* call is WorkerReport and WorkerExit.)
handleError(msg) ==
    /\ stderr' = Append(stderr, msg)
    /\ Exit(1)

\* a run-time panic (send on or close of a closed channel) ends the process
\* with status 2
Panic(msg) ==
    /\ stderr' = Append(stderr, msg)
    /\ Exit(2)

(***************************************************************************)
(* Init: the process has parsed its flags and main is about to look at     *)
(* them.                                                                   *)
(***************************************************************************)
Idle ==
    /\ mainPc = "start"
    /\ cidrs = <<>>
    /\ di = 1
    /\ ipsChan = <<>>
    /\ chanCap = 0
    /\ chanClosed = FALSE
    /\ wg = 0
    /\ ips = <<>>
    /\ wPc = <<>>
    /\ wErr = <<>>
    /\ wIp = <<>>
    /\ wNet = <<>>
    /\ wIps = <<>>
    /\ wElided = <<>>
    /\ closerPc = "none"
    /\ exited = FALSE
    /\ exitCode = 0
    /\ stdout = <<>>
    /\ stderr = <<>>
    /\ csvCreated = FALSE
    /\ csvRows = <<>>

Init ==
    /\ versionFlag \in BOOLEAN
    /\ helpFlag \in BOOLEAN
    /\ fileFlag \in {"", "cidrs"}
    /\ args \in ArgLists
    /\ fsFile \in {[exists |-> FALSE, data |-> <<>>]}
                  \cup {[exists |-> TRUE, data |-> d] : d \in FileDatas}
    \* a file that is not asked for is not looked at; with -f, -v or -h the
    \* positional arguments are not looked at
    /\ fileFlag = "" => ~fsFile.exists
    /\ (fileFlag # "" \/ versionFlag \/ helpFlag) => args \in {<<>>, <<CidrC>>, <<Bad33>>}
    /\ Idle

(***************************************************************************)
(* main (src/cidr2ip.go:22-60)                                             *)
(***************************************************************************)
\* lines 34-37
MainVersion ==
    /\ ~exited /\ mainPc = "start"
    /\ versionFlag
    /\ stdout' = Append(stdout, "cidr2ip version 1.0.0")
    /\ Exit(0)
    /\ UNCHANGED <<inputs, mainPc, cidrs, di, chanVars, wg, ips, workerVars,
                   closerPc, stderr, csvCreated, csvRows>>

\* lines 39-42 and 62-65: printHelp writes the usage line to standard
\* output and, with flag.PrintDefaults, the flags' descriptions to the flag
\* set's output, which is standard error
MainHelp ==
    /\ ~exited /\ mainPc = "start"
    /\ ~versionFlag /\ helpFlag
    /\ stdout' = Append(stdout, "Usage: cidr2ip [-f filename] <CIDR1 CIDR2 ...>")
    /\ stderr' = Append(stderr, "flag defaults: -f filename, -h, -v")
    /\ Exit(0)
    /\ UNCHANGED <<inputs, mainPc, cidrs, di, chanVars, wg, ips, workerVars,
                   closerPc, csvCreated, csvRows>>

\* lines 44-47
MainNoCIDRs ==
    /\ ~exited /\ mainPc = "start"
    /\ ~versionFlag /\ ~helpFlag
    /\ fileFlag = "" /\ Len(args) = 0
    /\ stderr' = Append(stderr, "Error: No CIDRs provided. Use -h for help.")
    /\ Exit(1)
    /\ UNCHANGED <<inputs, mainPc, cidrs, di, chanVars, wg, ips, workerVars,
                   closerPc, stdout, csvCreated, csvRows>>

\* lines 49-52 and 110-111: readCIDRs, handleError, and generateIPs' first
\* two statements (make(chan []string, len(cidrs)), the WaitGroup)
MainReadCIDRs ==
    /\ ~exited /\ mainPc = "start"
    /\ ~versionFlag /\ ~helpFlag
    /\ ~(fileFlag = "" /\ Len(args) = 0)
    /\ LET r == readCIDRs(fileFlag)
       IN  IF r.err
           THEN /\ handleError("Error: read")
                /\ UNCHANGED <<mainPc, cidrs, di, chanVars, wg, ips, workerVars>>
           ELSE /\ cidrs' = r.cidrs
                /\ di' = 1
                /\ ipsChan' = <<>>
                /\ chanCap' = ChanCapacity(r.cidrs)
                /\ chanClosed' = FALSE
                /\ wg' = 0
                /\ ips' = <<>>
                /\ wPc' = [i \in 1..Len(r.cidrs) |-> "idle"]
                /\ wErr' = [i \in 1..Len(r.cidrs) |-> FALSE]
                /\ wIp' = [i \in 1..Len(r.cidrs) |-> <<0, 0, 0, 0>>]
                /\ wNet' = [i \in 1..Len(r.cidrs) |-> NoNet]
                /\ wIps' = [i \in 1..Len(r.cidrs) |-> <<>>]
                /\ wElided' = [i \in 1..Len(r.cidrs) |-> <<0, 0>>]
                /\ mainPc' = "dispatch"
                /\ UNCHANGED <<exitVars, stderr>>
    /\ UNCHANGED <<inputs, closerPc, stdout, csvCreated, csvRows>>

(***************************************************************************)
(* generateIPs (src/cidr2ip.go:109-138)                                    *)
(***************************************************************************)
\* lines 113-115, one turn of the loop: wg.Add(1) and the go statement
Dispatch ==
    /\ ~exited /\ mainPc = "dispatch"
    /\ di <= Len(cidrs)
    /\ wg' = wg + 1
    /\ wPc' = [wPc EXCEPT ![di] = "start"]
    /\ di' = di + 1
    /\ UNCHANGED <<inputs, mainPc, cidrs, chanVars, ips, wErr, wIp, wNet, wIps,
                   wElided, closerPc, exitVars, outVars>>

\* lines 127-130: the go statement of the closing goroutine
SpawnCloser ==
    /\ ~exited /\ mainPc = "dispatch"
    /\ di > Len(cidrs)
    /\ closerPc' = "wait"
    /\ mainPc' = "drain"
    /\ UNCHANGED <<inputs, cidrs, di, chanVars, wg, ips, workerVars, exitVars, outVars>>

\* a receive that takes one address of the oldest list and leaves the rest
\* of the list in the channel behind the others
ReceiveOneAddress ==
    /\ ~exited /\ mainPc = "drain"
    /\ ipsChan # <<>>
    /\ ips' = ips \o SubSeq(Head(ipsChan), 1, 1)
    /\ ipsChan' = IF Len(Head(ipsChan)) > 1
                  THEN Append(Tail(ipsChan), Tail(Head(ipsChan)))
                  ELSE Tail(ipsChan)
    /\ UNCHANGED <<inputs, mainPc, cidrs, di, chanCap, chanClosed, wg, workerVars,
                   closerPc, exitVars, outVars>>

\* a receive that keeps only the list it received
ReceiveOverwrite ==
    /\ ~exited /\ mainPc = "drain"
    /\ ipsChan # <<>>
    /\ ips' = Head(ipsChan)
    /\ ipsChan' = Tail(ipsChan)
    /\ UNCHANGED <<inputs, mainPc, cidrs, di, chanCap, chanClosed, wg, workerVars,
                   closerPc, exitVars, outVars>>

\* lines 133-135, one turn of the range loop: receive a list, append it
Receive ==
    /\ ~exited /\ mainPc = "drain"
    /\ ipsChan # <<>>
    /\ ips' = ips \o Head(ipsChan)
    /\ ipsChan' = Tail(ipsChan)
    /\ UNCHANGED <<inputs, mainPc, cidrs, di, chanCap, chanClosed, wg, workerVars,
                   closerPc, exitVars, outVars>>

\* lines 133 and 137, and 53: the range loop ends on the closed, drained
\* channel; generateIPs returns ips, nil; handleError(nil) does nothing
DrainEnd ==
    /\ ~exited /\ mainPc = "drain"
    /\ ipsChan = <<>> /\ chanClosed
    /\ mainPc' = "save"
    /\ UNCHANGED <<inputs, cidrs, di, chanVars, wg, ips, workerVars, closerPc,
                   exitVars, outVars>>

\* lines 55-57: saveToCSV writes one single-field record per address, or
\* os.Create fails and handleError ends the run
MainSave ==
    /\ ~exited /\ mainPc = "save"
    /\ \E created \in BOOLEAN :
        IF created
        THEN /\ csvCreated' = TRUE
             /\ csvRows' = [k \in 1..Len(ips) |-> <<ips[k]>>]
             /\ mainPc' = "print"
             /\ UNCHANGED <<exitVars, stdout, stderr>>
        ELSE /\ handleError("Error: create")
             /\ UNCHANGED <<mainPc, stdout, csvCreated, csvRows>>
    /\ UNCHANGED <<inputs, cidrs, di, chanVars, wg, ips, workerVars, closerPc>>

\* lines 59-60: the success message; main returns, the process ends with 0
MainPrint ==
    /\ ~exited /\ mainPc = "print"
    /\ stdout' = Append(stdout, "IP list saved to")
    /\ mainPc' = "done"
    /\ Exit(0)
    /\ UNCHANGED <<inputs, cidrs, di, chanVars, wg, ips, workerVars, closerPc,
                   stderr, csvCreated, csvRows>>

(***************************************************************************)
(* The worker goroutine (lines 115-123) and getIPsFromCIDR (140-153).      *)
(***************************************************************************)
\* lines 117-118 and 141-148: net.ParseCIDR; on an error getIPsFromCIDR
\* returns it and the worker goes on to handleError; otherwise the cursor
\* starts at ip.Mask(ipnet.Mask)
WorkerParse(i) ==
    /\ ~exited /\ wPc[i] = "start"
    /\ LET r == ParseCIDR(cidrs[i])
       IN  IF r.err
           THEN /\ wErr' = [wErr EXCEPT ![i] = TRUE]
                /\ wPc' = [wPc EXCEPT ![i] = "report"]
                /\ UNCHANGED <<wIp, wNet, wIps>>
           ELSE /\ wNet' = [wNet EXCEPT ![i] = r.ipnet]
                /\ wIp' = [wIp EXCEPT ![i] = Mask(r.ip, r.ipnet.Mask)]
                /\ wIps' = [wIps EXCEPT ![i] = <<>>]
                /\ wPc' = [wPc EXCEPT ![i] = "loop"]
                /\ UNCHANGED wErr
    /\ UNCHANGED <<inputs, mainPc, cidrs, di, chanVars, wg, ips, wElided, closerPc,
                   exitVars, outVars>>

\* lines 119 and 188: handleError writes the error to standard error
WorkerReport(i) ==
    /\ ~exited /\ wPc[i] = "report"
    /\ stderr' = Append(stderr, "Error: invalid CIDR address")
    /\ wPc' = [wPc EXCEPT ![i] = "exit"]
    /\ UNCHANGED <<inputs, mainPc, cidrs, di, chanVars, wg, ips, wErr, wIp, wNet, wIps,
                   wElided, closerPc, exitVars, stdout, csvCreated, csvRows>>

\* a handleError that returns after reporting: the worker returns (line
\* 120) and its deferred wg.Done is left to run
WorkerExitReturns(i) ==
    /\ ~exited /\ wPc[i] = "exit"
    /\ wPc' = [wPc EXCEPT ![i] = "done"]
    /\ UNCHANGED <<inputs, mainPc, cidrs, di, chanVars, wg, ips, wErr, wIp, wNet, wIps,
                   wElided, closerPc, exitVars, outVars>>

\* line 189: os.Exit(1) ends the process; the deferred wg.Done does not run
WorkerExit(i) ==
    /\ ~exited /\ wPc[i] = "exit"
    /\ Exit(1)
    /\ UNCHANGED <<inputs, mainPc, cidrs, di, chanVars, wg, ips, workerVars, closerPc,
                   outVars>>

\* lines 148-152, one turn of the for loop: while ipnet.Contains(ip), append
\* ip.String() and call nextIP(ip); otherwise return the list.  The model
\* holds at most MaxIPs entries of a list.
WorkerLoop(i) ==
    /\ ~exited /\ wPc[i] = "loop"
    /\ IF Contains(wNet[i], wIp[i])
       THEN /\ Len(wIps[i]) < MaxIPs
            /\ wIps' = [wIps EXCEPT ![i] = Append(wIps[i], IPString(wIp[i]))]
            /\ wIp' = [wIp EXCEPT ![i] = nextIP(wIp[i])]
            /\ UNCHANGED wPc
       ELSE /\ wPc' = [wPc EXCEPT ![i] = "send"]
            /\ UNCHANGED <<wIp, wIps>>
    /\ UNCHANGED <<inputs, mainPc, cidrs, di, chanVars, wg, ips, wErr, wNet, wElided,
                   closerPc, exitVars, outVars>>

\* line 122: ipsChan <- ipList.  The send waits while the buffer is full
\* and panics on a closed channel.
WorkerSend(i) ==
    /\ ~exited /\ wPc[i] = "send"
    /\ IF chanClosed
       THEN /\ Panic("panic: send on closed channel")
            /\ UNCHANGED <<ipsChan, wPc>>
       ELSE /\ Len(ipsChan) < chanCap
            /\ ipsChan' = Append(ipsChan, wIps[i])
            /\ wPc' = [wPc EXCEPT ![i] = "done"]
            /\ UNCHANGED <<exitVars, stderr>>
    /\ UNCHANGED <<inputs, mainPc, cidrs, di, chanCap, chanClosed, wg, ips, wErr, wIp,
                   wNet, wIps, wElided, closerPc, stdout, csvCreated, csvRows>>

\* line 116: the deferred wg.Done()
WorkerDone(i) ==
    /\ ~exited /\ wPc[i] = "done"
    /\ wg' = wg - 1
    /\ wPc' = [wPc EXCEPT ![i] = "finished"]
    /\ UNCHANGED <<inputs, mainPc, cidrs, di, chanVars, ips, wErr, wIp, wNet, wIps,
                   wElided, closerPc, exitVars, outVars>>

(***************************************************************************)
(* The closing goroutine (lines 127-130).                                  *)
(***************************************************************************)
\* a closing goroutine that does not wait for the workers
CloserNoWait ==
    /\ ~exited /\ closerPc = "wait"
    /\ closerPc' = "close"
    /\ UNCHANGED <<inputs, mainPc, cidrs, di, chanVars, wg, ips, workerVars,
                   exitVars, outVars>>

\* line 128: wg.Wait() returns when the counter is 0
CloserWait ==
    /\ ~exited /\ closerPc = "wait"
    /\ wg = 0
    /\ closerPc' = "close"
    /\ UNCHANGED <<inputs, mainPc, cidrs, di, chanVars, wg, ips, workerVars,
                   exitVars, outVars>>

\* line 129: close(ipsChan); closing a closed channel panics
CloserClose ==
    /\ ~exited /\ closerPc = "close"
    /\ IF chanClosed
       THEN /\ Panic("panic: close of closed channel")
            /\ UNCHANGED <<chanClosed, closerPc>>
       ELSE /\ chanClosed' = TRUE
            /\ closerPc' = "finished"
            /\ UNCHANGED <<exitVars, stderr>>
    /\ UNCHANGED <<inputs, mainPc, cidrs, di, ipsChan, chanCap, wg, ips, workerVars,
                   stdout, csvCreated, csvRows>>

Next ==
    \/ MainVersion
    \/ MainHelp
    \/ MainNoCIDRs
    \/ MainReadCIDRs
    \/ Dispatch
    \/ SpawnCloser
    \/ Receive
    \/ DrainEnd
    \/ MainSave
    \/ MainPrint
    \/ \E i \in Workers : WorkerParse(i)
    \/ \E i \in Workers : WorkerReport(i)
    \/ \E i \in Workers : WorkerExit(i)
    \/ \E i \in Workers : WorkerLoop(i)
    \/ \E i \in Workers : WorkerSend(i)
    \/ \E i \in Workers : WorkerDone(i)
    \/ CloserWait
    \/ CloserClose

Spec == Init /\ [][Next]_vars


(***************************************************************************)
(* Runs of the block of all addresses, taken up late.  Enumerating         *)
(* 0.0.0.0/0 from Init passes through every address: after k turns of the  *)
(* loop the cursor is the k-th address and the list holds the k addresses  *)
(* before it.  LateInit places the single worker of `cidr2ip 0.0.0.0/0` at *)
(* such a point, with the k earlier entries of its list elided.            *)
(***************************************************************************)
LatePoints == {<<255, 255, 255, 254>>, <<10, 0, 0, 254>>, <<0, 255, 255, 254>>,
               <<127, 255, 255, 255>>}

LateInit ==
    /\ versionFlag = FALSE
    /\ helpFlag = FALSE
    /\ fileFlag = ""
    /\ args = <<CidrAll>>
    /\ fsFile = [exists |-> FALSE, data |-> <<>>]
    /\ mainPc = "drain"
    /\ cidrs = <<CidrAll>>
    /\ di = 2
    /\ ipsChan = <<>>
    /\ chanCap = ChanCapacity(<<CidrAll>>)
    /\ chanClosed = FALSE
    /\ wg = 1
    /\ ips = <<>>
    /\ wPc = <<"loop">>
    /\ wErr = <<FALSE>>
    /\ wNet = <<ParseCIDR(CidrAll).ipnet>>
    /\ \E p \in LatePoints :
        /\ wIp = <<p>>
        /\ wElided = << <<p[1] * 256 + p[2], p[3] * 256 + p[4]>> >>
    /\ wIps = << <<>> >>
    /\ closerPc = "wait"
    /\ exited = FALSE
    /\ exitCode = 0
    /\ stdout = <<>>
    /\ stderr = <<>>
    /\ csvCreated = FALSE
    /\ csvRows = <<>>

LateSpec == (Init \/ LateInit) /\ [][Next]_vars

(***************************************************************************)
(* Arithmetic for the properties.  A 32-bit quantity is a pair             *)
(* <<high, low>> of 16-bit halves; a count may reach 2^32 = <<65536, 0>>.  *)
(***************************************************************************)
Pow2(n) == 2 ^ n

WVal(ip) == <<ip[1] * 256 + ip[2], ip[3] * 256 + ip[4]>>

WAdd(a, b) == <<a[1] + b[1] + ((a[2] + b[2]) \div 65536), (a[2] + b[2]) % 65536>>

WLeq(a, b) == a[1] < b[1] \/ (a[1] = b[1] /\ a[2] <= b[2])

\* the text of c before and after its slash
AddrPart(c) == SubSeq(c, 1, IndexFrom(c, "/", 1) - 1)

PrefixPart(c) == SubSeq(c, IndexFrom(c, "/", 1) + 1, Len(c))

\* the prefix length p of a valid expression, the size 2^(32-p) of its
\* network and the network's first address a AND mask(p), from the text
PrefixLen(c) == dtoi(PrefixPart(c)).n

NetSize(c) ==
    IF PrefixLen(c) > 16 THEN <<0, Pow2(32 - PrefixLen(c))>>
    ELSE <<Pow2(16 - PrefixLen(c)), 0>>

NetBase(c) ==
    LET a == WVal(ParseAddr(AddrPart(c)).ip)
    IN  IF PrefixLen(c) > 16
        THEN <<a[1], a[2] - (a[2] % Pow2(32 - PrefixLen(c)))>>
        ELSE <<a[1] - (a[1] % Pow2(16 - PrefixLen(c))), 0>>

\* the value of dotted-decimal text
StrVal(str) == WVal(ParseAddr(str).ip)

RECURSIVE Flatten(_)
Flatten(ss) == IF ss = <<>> THEN <<>> ELSE Head(ss) \o Flatten(Tail(ss))

RECURSIVE SumLen(_)
SumLen(ss) == IF ss = <<>> THEN 0 ELSE Len(Head(ss)) + SumLen(Tail(ss))

\* the orders in which the members of S can be arranged
Orders(S) == {f \in [1..Cardinality(S) -> S] : \A a, b \in 1..Cardinality(S) : f[a] = f[b] => a = b}

\* the workers that have delivered their list
Delivered == {i \in Workers : wPc[i] \in {"done", "finished"} /\ ~wErr[i]}

Returned == mainPc \in {"save", "print", "done"}

Malformed(c) == c \in MalformedPool \/ c = <<>>

Saved == \E k \in 1..Len(stdout) : stdout[k] = "IP list saved to"

\* the model holds no more of worker i's list
Capped(i) == wPc[i] = "loop" /\ Len(wIps[i]) = MaxIPs

\* some step of the running process is possible: main is not waiting to
\* receive, or a worker is not waiting to send, or the closing goroutine is
\* not waiting for the counter
CanStep ==
    \/ mainPc \in {"start", "dispatch", "save", "print"}
    \/ mainPc = "drain" /\ (ipsChan # <<>> \/ chanClosed)
    \/ \E i \in Workers :
         \/ wPc[i] \in {"start", "report", "exit", "done"}
         \/ wPc[i] = "loop" /\ ~Capped(i)
         \/ wPc[i] = "send" /\ (chanClosed \/ Len(ipsChan) < chanCap)
    \/ closerPc = "wait" /\ wg = 0
    \/ closerPc = "close"

(***************************************************************************)
(* C1: for a valid expression a/p, getIPsFromCIDR returns exactly the      *)
(* 2^(32-p) addresses base, base+1, ..., with base = a AND mask(p): at     *)
(* every point of the loop the list so far is the addresses from base on,  *)
(* consecutive and increasing, never more than 2^(32-p) of them, and the   *)
(* list returned has all 2^(32-p).                                         *)
(***************************************************************************)
C1_EnumeratesExactly ==
    \A i \in Workers :
        (wPc[i] \in {"loop", "send", "done", "finished"} /\ ~wErr[i]) =>
            LET c == cidrs[i]
                n == WAdd(wElided[i], <<0, Len(wIps[i])>>)
            IN  /\ WLeq(n, NetSize(c))
                /\ \A k \in 1..Len(wIps[i]) :
                     StrVal(wIps[i][k]) = WAdd(NetBase(c), WAdd(wElided[i], <<0, k - 1>>))
                /\ wPc[i] # "loop" => n = NetSize(c)

(***************************************************************************)
(* C2: with a malformed expression among the inputs of generateIPs the run *)
(* can only end in failure: generateIPs does not return, no CSV file is    *)
(* created, the success message is not printed, the process exits with 1   *)
(* and until then a step is always possible; the malformed expression      *)
(* yields no address and its worker never calls wg.Done.                   *)
(***************************************************************************)
C2_MalformedRunFails ==
    (\E i \in Workers : Malformed(cidrs[i])) =>
        /\ ~Returned
        /\ ~csvCreated
        /\ ~Saved
        /\ exited => exitCode = 1
        /\ ~exited => CanStep
        /\ \A i \in Workers :
             Malformed(cidrs[i]) =>
                /\ wIps[i] = <<>>
                /\ wPc[i] \in {"idle", "start", "report", "exit"}
                /\ wErr[i] <=> wPc[i] \in {"report", "exit"}
        /\ exited => \E i \in Workers : Malformed(cidrs[i]) /\ wPc[i] = "exit"
        /\ Len(ipsChan) <= Cardinality({i \in Workers : ~Malformed(cidrs[i])})

C2_Witness ==
    /\ exited /\ exitCode = 1
    /\ \E i, j \in Workers :
        /\ Malformed(cidrs[i]) /\ wErr[i]
        /\ ~Malformed(cidrs[j]) /\ wPc[j] = "finished"

(***************************************************************************)
(* C3: when no CIDR is supplied (no positional argument and no -f), or the *)
(* -f file is missing or empty, the run fails with a non-zero status       *)
(* before any enumeration: no worker is dispatched and nothing is written. *)
(***************************************************************************)
NoInput ==
    \/ fileFlag = "" /\ Len(args) = 0
    \/ fileFlag # "" /\ (~fsFile.exists \/ Len(fsFile.data) = 0)

NothingStarted ==
    /\ mainPc = "start"
    /\ cidrs = <<>>
    /\ wPc = <<>>
    /\ ipsChan = <<>>
    /\ ~csvCreated
    /\ ~Saved
    /\ ~exited => CanStep

\* the claim as written
C3_NoInputFails ==
    NoInput => (NothingStarted /\ (exited => exitCode # 0))

\* C3 as amended: the status is 1 unless -v or -h is given, which print the
\* version or the help and end the run with status 0 before the inputs are
\* looked at.
C3_NoInputFailsUnlessHelp ==
    NoInput =>
        /\ NothingStarted
        /\ exited => exitCode = (IF versionFlag \/ helpFlag THEN 0 ELSE 1)

C3_Witness ==
    /\ NoInput /\ exited /\ exitCode = 1
    /\ fileFlag # "" /\ fsFile.exists

(***************************************************************************)
(* C4: for valid expressions the list generateIPs returns is as long as    *)
(* the workers' lists together; on the way, every delivered list is either *)
(* buffered or appended, once.                                             *)
(***************************************************************************)
C4_LengthIsSum ==
    (mainPc # "start" /\ \A i \in Workers : ~Malformed(cidrs[i])) =>
        /\ Len(ips) + SumLen(ipsChan) = SumLen([k \in 1..Len(wIps) |->
                                            IF k \in Delivered THEN wIps[k] ELSE <<>>])
        /\ Returned => /\ Delivered = Workers
                       /\ Len(ips) = SumLen(wIps)

C4_Witness ==
    /\ Returned
    /\ Len(cidrs) = 2 /\ cidrs[1] = cidrs[2]
    /\ Len(ips) = 2 * Len(wIps[1])
    /\ Len(ips) > 2

(***************************************************************************)
(* C5: when one task's enumeration fails, the tasks that succeeded still   *)
(* contribute their addresses to the final result.                         *)
(***************************************************************************)
\* list b is a run of consecutive rows of the CSV file
IsBlockOfCsv(b) ==
    \E off \in 0..Len(csvRows) :
        /\ off + Len(b) <= Len(csvRows)
        /\ \A k \in 1..Len(b) : csvRows[off + k] = <<b[k]>>

\* the claim as written, at the end of the run
C5_SiblingsContribute ==
    (exited /\ \E i \in Workers : wErr[i]) =>
        \A j \in Delivered : csvCreated /\ IsBlockOfCsv(wIps[j])

\* C5 as amended: when one task's enumeration fails, the task reports the
\* error and ends the process with status 1; until it does, the other tasks
\* go on and may deliver, but the failed task never calls wg.Done, so the
\* channel is not closed and the delivered lists stay in the channel or in
\* generateIPs' local list: they are neither returned nor written.
C5_FailureEndsRun ==
    (\E i \in Workers : wErr[i]) =>
        /\ ~Returned
        /\ ~chanClosed
        /\ wg > 0
        /\ ~csvCreated /\ csvRows = <<>>
        /\ ~Saved
        /\ exited => exitCode = 1
        /\ ~exited => \E i \in Workers : wErr[i] /\ wPc[i] \in {"report", "exit"}

C5_Witness ==
    /\ exited
    /\ \E i \in Workers : wErr[i]
    /\ Delivered # {}
    /\ Len(ips) > 0

(***************************************************************************)
(* C6: the combined list is a concatenation of whole per-CIDR blocks in    *)
(* the order of delivery: what has been appended followed by what is       *)
(* buffered is the delivered workers' lists, each once and unbroken, in    *)
(* some order; at the return, the lists of all workers.                    *)
(***************************************************************************)
C6_WholeBlocks ==
    (mainPc # "start" /\ \A i \in Workers : ~Malformed(cidrs[i])) =>
        /\ \E f \in Orders(Delivered) :
             ips \o Flatten(ipsChan) = Flatten([k \in 1..Cardinality(Delivered) |-> wIps[f[k]]])
        /\ Returned => Delivered = Workers /\ ipsChan = <<>>

C6_Witness ==
    /\ Returned
    /\ Len(cidrs) = 2
    /\ Len(wIps[1]) > 1 /\ Len(wIps[2]) > 1
    /\ wIps[1] # wIps[2]
    /\ ips = wIps[2] \o wIps[1]

(***************************************************************************)
(* C7: for valid expressions every worker's loop finishes and generateIPs  *)
(* returns.  The loop goes on or stops by its cursor alone, so it finishes *)
(* exactly if the cursor never comes back to the network's first address   *)
(* while the loop is running; and nothing waits forever exactly if, until  *)
(* the process has ended, some step is possible (a worker whose list the   *)
(* model holds no more of is left out).                                    *)
(***************************************************************************)
C7_Terminates ==
    (mainPc # "start" /\ \A i \in Workers : ~Malformed(cidrs[i])) =>
        /\ \A i \in Workers :
             (wPc[i] = "loop" /\ (wElided[i] # <<0, 0>> \/ Len(wIps[i]) > 0))
                => wIp[i] # wNet[i].IP
        /\ (~exited /\ \A i \in Workers : ~Capped(i)) => CanStep

(***************************************************************************)
(* C8: the channel is closed once, by the closing goroutine alone and only *)
(* when the wait-group counter is 0 and every worker has finished; no      *)
(* worker sends on the closed channel (no panic); only a worker's send     *)
(* adds to the channel.                                                    *)
(***************************************************************************)
C8_ClosedOnceAfterWorkers ==
    /\ [](exitCode # 2)
    /\ [](chanClosed => /\ closerPc = "finished"
                        /\ wg = 0
                        /\ \A i \in Workers : wPc[i] = "finished")
    /\ [][chanClosed => chanClosed']_vars
    /\ [][(~chanClosed /\ chanClosed') => (closerPc = "close" /\ closerPc' = "finished")]_vars
    /\ [][Len(ipsChan') > Len(ipsChan) =>
            \E i \in Workers : wPc[i] = "send" /\ wPc'[i] = "done"]_vars

C8_Witness ==
    /\ chanClosed
    /\ Len(cidrs) = 2
    /\ Len(ips) > 0

(***************************************************************************)
(* C9: the channel's capacity is the number of inputs, each worker sends   *)
(* at most once, so the buffer never holds more lists than there are       *)
(* inputs and a worker that is about to send finds room.                   *)
(***************************************************************************)
C9_SendNeverWaits ==
    mainPc # "start" =>
        /\ chanCap = Len(cidrs)
        /\ Len(ipsChan) <= chanCap
        /\ Len(ipsChan) <= Cardinality(Delivered)
        /\ \A i \in Workers : wPc[i] = "send" => Len(ipsChan) < chanCap

C9_Witness ==
    /\ Len(cidrs) = 2
    /\ Len(ipsChan) = 1
    /\ \E i \in Workers : wPc[i] = "send"

(***************************************************************************)
(* C10: nextIP adds one to the address read as a big-endian unsigned       *)
(* 32-bit integer: every turn of the loop moves the cursor to the next     *)
(* value (modulo 2^32); a last byte of 255 becomes 0 and the byte before   *)
(* it goes up by one, the bytes above the carry stay.                      *)
(***************************************************************************)
C10_NextIPAddsOne ==
    [][\A i \in Workers :
        (i \in DOMAIN wIp /\ wPc[i] = "loop" /\ wIp'[i] # wIp[i]) =>
            LET a == wIp[i]
                b == wIp'[i]
                s == WAdd(WVal(a), <<0, 1>>)
            IN  /\ WVal(b) = <<s[1] % 65536, s[2]>>
                /\ a[4] # 255 => b = [a EXCEPT ![4] = a[4] + 1]
                /\ (a[4] = 255 /\ a[3] # 255) => b = <<a[1], a[2], a[3] + 1, 0>>
                /\ (a[4] = 255 /\ a[3] = 255 /\ a[2] # 255) => b = <<a[1], a[2] + 1, 0, 0>>
                /\ (a[4] = 255 /\ a[3] = 255 /\ a[2] = 255) => b = <<(a[1] + 1) % 256, 0, 0, 0>>
      ]_vars

\* 10.0.0.255 is followed by 10.0.1.0 in a network that holds both
C10_Witness ==
    \E i \in Workers :
        /\ Contains(wNet[i], <<10, 0, 0, 255>>) /\ Contains(wNet[i], <<10, 0, 1, 0>>)
        /\ \E k \in 1..(Len(wIps[i]) - 1) :
             /\ wIps[i][k] = IPString(<<10, 0, 0, 255>>)
             /\ wIps[i][k + 1] = IPString(<<10, 0, 1, 0>>)

=============================================================================
